---- MODULE Spec2Model ----
(***************************************************************************)
(* A model of the pixel renderer of webview-napi (src/src/winit/render.rs): *)
(* the process-wide render-state cache behind one mutex, the render call   *)
(* that creates, recreates, resizes and presents a per-window surface, the *)
(* two eviction functions, and the scaling engine that composites an RGBA  *)
(* buffer into the packed frame of the window.                             *)
(*                                                                         *)
(* Numbers.  TLC's integers are 32-bit signed, so a u32 that may exceed    *)
(* 2^31 - 1 (a wrapped difference, a wrapped product, a packed pixel) is   *)
(* held as a pair <<hi, lo>> of 16-bit halves; dimensions, which stay      *)
(* small in the model, are plain naturals.  An f64 is held as a 53-bit     *)
(* significand and the exponent of its last bit, and FDiv/FMul round to    *)
(* nearest-even as IEEE 754 does.                                          *)
(***************************************************************************)
EXTENDS Integers, Sequences, FiniteSets, TLC

(***************************************************************************)
(* u32 arithmetic, on pairs <<hi, lo>> of 16-bit halves (value = hi*2^16   *)
(* + lo).                                                                   *)
(***************************************************************************)
Half == 256 * 256

\* A natural below 2^31 as a u32.
U32(n) == <<n \div Half, n % Half>>

\* A u32 below 2^31 as a natural.
U32ToNat(u) == u[1] * Half + u[2]

\* Unsigned comparison a < b.
U32Less(a, b) == a[1] < b[1] \/ (a[1] = b[1] /\ a[2] < b[2])

\* a - b modulo 2^32 (u32::wrapping_sub, the release build's `-`).
U32WrappingSub(a, b) ==
  LET borrow == IF a[2] < b[2] THEN 1 ELSE 0
      lo == a[2] - b[2] + borrow * Half
      hi == (a[1] - b[1] - borrow + Half) % Half
  IN  <<hi, lo>>

\* a + b modulo 2^32 (u32::wrapping_add, the release build's `+`).
U32WrappingAdd(a, b) ==
  LET lo == a[2] + b[2]
  IN  <<(a[1] + b[1] + lo \div Half) % Half, lo % Half>>

\* Whether a + b exceeds u32::MAX (the debug build's `+` panics then).
U32AddOverflows(a, b) == a[1] + b[1] + (a[2] + b[2]) \div Half >= Half

\* a / 2 (unsigned).
U32Half(a) == <<a[1] \div 2, (a[1] % 2) * (Half \div 2) + a[2] \div 2>>

\* The 32-bit product x * y of two 16-bit halves, as <<hi, lo>>.
Mul16(x, y) ==
  LET p == x * (y \div 256)
      q == x * (y % 256)
      t == (p % 256) * 256 + q
  IN  <<(p \div 256 + t \div Half) % Half, t % Half>>

\* a * b modulo 2^32 (u32::wrapping_mul, the release build's `*`).
U32WrappingMul(a, b) ==
  LET ll == Mul16(a[2], b[2])
      hl == Mul16(a[1], b[2])
      lh == Mul16(a[2], b[1])
  IN  <<(ll[1] + hl[2] + lh[2]) % Half, ll[2]>>

\* Whether a * b exceeds u32::MAX (the debug build's `*` panics then).
U32MulOverflows(a, b) ==
  LET ll == Mul16(a[2], b[2])
      hl == Mul16(a[1], b[2])
      lh == Mul16(a[2], b[1])
  IN  \/ (a[1] # 0 /\ b[1] # 0)
      \/ hl[1] # 0
      \/ lh[1] # 0
      \/ ll[1] + hl[2] + lh[2] >= Half

\* Bytes packed in the other order: the faulty variant of from_le_bytes.
from_be_bytes(bytes) == <<bytes[1] * 256 + bytes[2], bytes[3] * 256 + bytes[4]>>

\* u32::from_le_bytes([b0, b1, b2, b3]).
from_le_bytes(bytes) == <<bytes[4] * 256 + bytes[3], bytes[2] * 256 + bytes[1]>>

(***************************************************************************)
(* f64 arithmetic.  A positive finite double is [m |-> the 53 bits of its  *)
(* significand, most significant first, e |-> the exponent of the last     *)
(* bit]: its value is m * 2^e.  FZero is 0.0 and FInf is +infinity (a      *)
(* division by 0.0).                                                        *)
(***************************************************************************)
Mantissa == 53

FZero == [m |-> <<>>, e |-> 0]
FInf == [m |-> <<2>>, e |-> 0]

\* 2^k for k in 0..30.
Pow2(k) ==
  <<1, 2, 4, 8, 16, 32, 64, 128, 256, 512, 1024, 2048, 4096, 8192, 16384, 32768,
    65536, 131072, 262144, 524288, 1048576, 2097152, 4194304, 8388608, 16777216,
    33554432, 67108864, 134217728, 268435456, 536870912, 1073741824>>[k + 1]

\* The number of binary digits of n (0 for 0).
BitLen(n) == Cardinality({k \in 0..30 : Pow2(k) <= n})

\* The binary digits of n, most significant first (<<>> for 0).
NatBits(n) ==
  LET len == BitLen(n) IN [i \in 1..len |-> (n \div Pow2(len - i)) % 2]

RECURSIVE BitsNatFrom(_, _, _)
\* The natural whose digits are bits lo..hi of m (halving the range).
BitsNatFrom(m, lo, hi) ==
  IF lo > hi THEN 0
  ELSE IF lo = hi THEN m[lo]
  ELSE LET mid == (lo + hi) \div 2
       IN  BitsNatFrom(m, lo, mid) * Pow2(hi - mid) + BitsNatFrom(m, mid + 1, hi)

\* The natural whose digits are the first k bits of m.
BitsNat(m, k) == BitsNatFrom(m, 1, k)

\* bits + 1 over the first k bits; a carry out of the top gives <<1, 0, .., 0>>.
Increment(bits, k) ==
  LET zeros == {i \in 1..k : bits[i] = 0}
  IN  IF zeros = {} THEN <<1>> \o [i \in 1..Len(bits) |-> IF i <= k THEN 0 ELSE bits[i]]
      ELSE LET last == CHOOSE i \in zeros : \A j \in zeros : j <= i
           IN  [i \in 1..Len(bits) |->
                  IF i < last \/ i > k THEN bits[i] ELSE IF i = last THEN 1 ELSE 0]

\* Round the exact value all * 2^e (all has at least 53 bits and a leading
\* 1; sticky says that non-zero bits follow below all) to nearest, ties to even.
RoundNearestEven(all, e, sticky) ==
  LET n == Len(all)
      m == SubSeq(all, 1, Mantissa)
      rest == SubSeq(all, Mantissa + 1, n)
      round == n > Mantissa /\ rest[1] = 1
      below == sticky \/ \E i \in 2..Len(rest) : rest[i] = 1
      up == round /\ (below \/ m[Mantissa] = 1)
      e53 == e + (n - Mantissa)
      inc == Increment(m, Mantissa)
  IN  IF ~up THEN [m |-> m, e |-> e53]
      ELSE IF Len(inc) = Mantissa THEN [m |-> inc, e |-> e53]
      ELSE [m |-> SubSeq(inc, 1, Mantissa), e |-> e53 + 1]

\* For 0 < r < b: the number of zero bits that open the binary fraction r/b.
LeadZeros(r, b) ==
  LET d == BitLen(b) - BitLen(r)
  IN  IF r * Pow2(d) >= b THEN d - 1 ELSE d

LimbBits == 14
Limb == 128 * 128

\* <<the first n bits of the binary fraction r/b, whether anything non-zero
\* follows them>>, for n <= 56 and b < 2^17: long division, 14 bits a step.
FracBits(r, b, n) ==
  LET q1 == (r * Limb) \div b
      r1 == (r * Limb) % b
      q2 == (r1 * Limb) \div b
      r2 == (r1 * Limb) % b
      q3 == (r2 * Limb) \div b
      r3 == (r2 * Limb) % b
      q4 == (r3 * Limb) \div b
      r4 == (r3 * Limb) % b
      q == <<q1, q2, q3, q4>>
      bit(i) == (q[(i - 1) \div LimbBits + 1] \div Pow2(LimbBits - 1 - ((i - 1) % LimbBits))) % 2
  IN  <<[i \in 1..n |-> bit(i)],
        r4 # 0 \/ \E i \in (n + 1)..(4 * LimbBits) : bit(i) = 1>>

\* `a as f64 / b as f64` for u32 a, b: the quotient rounded to nearest-even.
FDiv(a, b) ==
  IF b = 0 THEN FInf
  ELSE IF a = 0 THEN FZero
  ELSE LET ib == NatBits(a \div b)
           r == a % b
           z == IF Len(ib) > 0 \/ r = 0 THEN 0 ELSE LeadZeros(r, b)
           k == Mantissa + 1 - Len(ib)
           fb == FracBits(r * Pow2(z), b, k)
       IN  RoundNearestEven(ib \o fb[1], 0 - (z + k), fb[2])

\* The bits of n, padded with leading zeros to k bits (n < 2^k).
PadBits(n, k) == [i \in 1..k |-> (n \div Pow2(k - i)) % 2]

\* The bits of c * m for a 53-bit m and c <= 2^16: m is cut into four limbs
\* of at most 14 bits, each multiplied by c, and the carries propagated.
MulBits(m, c) ==
  LET m0 == BitsNatFrom(m, 40, 53)
      m1 == BitsNatFrom(m, 26, 39)
      m2 == BitsNatFrom(m, 12, 25)
      m3 == BitsNatFrom(m, 1, 11)
      p0 == c * m0
      p1 == c * m1 + p0 \div Limb
      p2 == c * m2 + p1 \div Limb
      p3 == c * m3 + p2 \div Limb
  IN  NatBits(p3) \o PadBits(p2 % Limb, LimbBits) \o PadBits(p1 % Limb, LimbBits)
        \o PadBits(p0 % Limb, LimbBits)

\* `c as f64 * d` for a u32 c: the product rounded to nearest-even.
FMul(c, d) ==
  IF c = 0 \/ d = FZero THEN FZero
  ELSE IF d = FInf THEN FInf
  ELSE RoundNearestEven(MulBits(d.m, c), d.e, FALSE)

\* `n as f64`.
FNat(n) == FDiv(n, 1)

\* x < y, for significands of 53 bits compared as two halves.
BitsLess(x, y) ==
  LET xh == BitsNatFrom(x, 1, 26)
      yh == BitsNatFrom(y, 1, 26)
  IN  xh < yh \/ (xh = yh /\ BitsNatFrom(x, 27, 53) < BitsNatFrom(y, 27, 53))

\* x < y.
FLess(x, y) ==
  IF y = FZero \/ x = FInf THEN FALSE
  ELSE IF x = FZero \/ y = FInf THEN TRUE
  ELSE x.e < y.e \/ (x.e = y.e /\ BitsLess(x.m, y.m))

\* The larger of two doubles where the smaller is wanted: the faulty
\* variant of FMin.
FLarger(x, y) == IF FLess(x, y) THEN y ELSE x

\* f64::min and f64::max.
FMin(x, y) == IF FLess(y, x) THEN y ELSE x
FMax(x, y) == IF FLess(x, y) THEN y ELSE x

\* `d as u32` (and d.floor() as u32): the integer part; it saturates at
\* u32::MAX, which no input of the model reaches (31 bits are kept).
FToU32(d) ==
  IF d = FZero THEN 0
  ELSE IF d = FInf \/ Mantissa + d.e > 31 THEN 2147483647
  ELSE IF Mantissa + d.e <= 0 THEN 0
  ELSE BitsNat(d.m, Mantissa + d.e)

(***************************************************************************)
(* The scaling engine.                                                     *)
(***************************************************************************)
ScaleMode == {"Stretch", "Fit", "Fill", "Integer", "None"}

\* A layout pushed to the far edge: the faulty variant of CenterOffset and
\* of SaturatingOffset.
FarEdge(window, scaled) == window

\* `(window - scaled) / 2` on u32: the difference wraps modulo 2^32 when
\* scaled exceeds window (a release build; a build with overflow checks
\* panics there, see Underflows).
CenterOffset(window, scaled) ==
  U32ToNat(U32Half(U32WrappingSub(U32(window), U32(scaled))))

\* Whether `window - scaled` underflows.
Underflows(window, scaled) == scaled > window

\* A copy that is never centred: the faulty variant of SaturatingOffset.
TopLeft(window, buffer) == 0

\* (window.saturating_sub(buffer)) / 2.
SaturatingOffset(window, buffer) ==
  IF window >= buffer THEN (window - buffer) \div 2 ELSE 0

Max(a, b) == IF a >= b THEN a ELSE b
Min(a, b) == IF a <= b THEN a ELSE b

\* calculate_scaled_dimensions: the layout, and whether computing it
\* overflows a u32 subtraction (a panic when the build checks overflow).
calculate_scaled_dimensions(buffer_width, buffer_height, window_width, window_height, scale_mode) ==
  LET scale_x == FDiv(window_width, buffer_width)
      scale_y == FDiv(window_height, buffer_height)
      layout(scaled_width, scaled_height) ==
        [offset_x |-> CenterOffset(window_width, scaled_width),
         offset_y |-> CenterOffset(window_height, scaled_height),
         scaled_width |-> scaled_width,
         scaled_height |-> scaled_height,
         overflow |-> Underflows(window_width, scaled_width)
                        \/ Underflows(window_height, scaled_height)]
  IN  CASE scale_mode = "Stretch" ->
             [offset_x |-> 0, offset_y |-> 0, scaled_width |-> window_width,
              scaled_height |-> window_height, overflow |-> FALSE]
        [] scale_mode = "Fit" ->
             LET scale == FMin(scale_x, scale_y)
             IN  layout(FToU32(FMul(buffer_width, scale)),
                        FToU32(FMul(buffer_height, scale)))
        [] scale_mode = "Fill" ->
             LET scale == FMax(scale_x, scale_y)
             IN  layout(FToU32(FMul(buffer_width, scale)),
                        FToU32(FMul(buffer_height, scale)))
        [] scale_mode = "Integer" ->
             LET scale == Max(FToU32(FMin(scale_x, scale_y)), 1)
             IN  layout(buffer_width * scale, buffer_height * scale)
        [] scale_mode = "None" ->
             [offset_x |-> SaturatingOffset(window_width, buffer_width),
              offset_y |-> SaturatingOffset(window_height, buffer_height),
              scaled_width |-> buffer_width, scaled_height |-> buffer_height,
              overflow |-> FALSE]

\* The packed pixel written for the source pixel at byte index src_idx:
\* u32::from_le_bytes([B, G, R, 255]).
PackedPixel(buffer, src_idx) ==
  from_le_bytes(<<buffer[src_idx + 3], buffer[src_idx + 2], buffer[src_idx + 1], 255>>)

\* `((src_y * buffer_width + src_x) * 4) as usize`, computed in u32.  With
\* src_y < buffer_height and src_x < buffer_width it stays below
\* buffer_width * buffer_height * 4, so a build that panics on overflow has
\* panicked at expected_len before it gets here; the other build wraps.
SrcIdx(src_y, buffer_width, src_x) ==
  U32WrappingMul(U32WrappingAdd(U32WrappingMul(U32(src_y), U32(buffer_width)), U32(src_x)),
                 U32(4))

\* The source coordinate of the next destination pixel: the faulty variant
\* of SourceCoordinate.
NextCoordinate(i, scale, buffer_dim) ==
  FToU32(FMin(FMul(i + 1, scale), FNat(buffer_dim - 1)))

\* `(i as f64 * scale).min(buffer_dim as f64 - 1.0) as u32`.
SourceCoordinate(i, scale, buffer_dim) ==
  FToU32(FMin(FMul(i, scale), FNat(buffer_dim - 1)))

\* The writes a copy routine performs: each is [dst_x, dst_y, dst_idx,
\* src_idx] (src_idx a u32), kept only when the routine's guard
\* `src_idx + 4 <= buffer.len() && dst_idx < surface_buffer.len()` passes.
Guarded(writes, buffer_len, surface_len) ==
  {w \in writes : /\ buffer_len >= 4
                  /\ U32Less(w.src_idx, U32(buffer_len - 3))
                  /\ w.dst_idx < surface_len}

\* copy_buffer_stretch: the loops over 0..window_height and 0..window_width.
copy_buffer_stretch_writes(buffer_len, surface_len, buffer_width, buffer_height, window_width, window_height) ==
  LET scale_x == FDiv(buffer_width, window_width)
      scale_y == FDiv(buffer_height, window_height)
      src_x == [x \in 0..(window_width - 1) |-> SourceCoordinate(x, scale_x, buffer_width)]
      src_y == [y \in 0..(window_height - 1) |-> SourceCoordinate(y, scale_y, buffer_height)]
  IN  Guarded({[dst_x |-> x, dst_y |-> y, dst_idx |-> y * window_width + x,
                src_idx |-> SrcIdx(src_y[y], buffer_width, src_x[x])] :
                 x \in 0..(window_width - 1), y \in 0..(window_height - 1)},
              buffer_len, surface_len)

\* copy_buffer_centered: the loops over 0..min(buffer_height, window_height)
\* and 0..min(buffer_width, window_width).
copy_buffer_centered_writes(buffer_len, surface_len, buffer_width, buffer_height, window_width, window_height) ==
  LET offset_x == SaturatingOffset(window_width, buffer_width)
      offset_y == SaturatingOffset(window_height, buffer_height)
  IN  Guarded({[dst_x |-> offset_x + x, dst_y |-> offset_y + y,
                dst_idx |-> (offset_y + y) * window_width + offset_x + x,
                src_idx |-> U32(y * buffer_width * 4 + x * 4)] :
                 x \in 0..(Min(buffer_width, window_width) - 1),
                 y \in 0..(Min(buffer_height, window_height) - 1)},
              buffer_len, surface_len)

\* The iterations 0..scaled that a loop of copy_buffer_scaled runs before
\* `if dst >= window { break; }` ends it: dst = offset + i grows with i, so
\* these are the i with offset + i < window.
UntilBreak(offset, scaled, window) ==
  0..(Min(scaled, window - offset) - 1)

\* copy_buffer_scaled: the loops over 0..scaled_height and 0..scaled_width.
copy_buffer_scaled_writes(buffer_len, surface_len, params) ==
  LET scale_x == FDiv(params.buffer_width, params.scaled_width)
      scale_y == FDiv(params.buffer_height, params.scaled_height)
      xs == UntilBreak(params.offset_x, params.scaled_width, params.window_width)
      ys == UntilBreak(params.offset_y, params.scaled_height, params.window_height)
      src_x == [x \in xs |-> SourceCoordinate(x, scale_x, params.buffer_width)]
      src_y == [y \in ys |-> SourceCoordinate(y, scale_y, params.buffer_height)]
  IN  Guarded({[dst_x |-> params.offset_x + x, dst_y |-> params.offset_y + y,
                dst_idx |-> (params.offset_y + y) * params.window_width
                              + params.offset_x + x,
                src_idx |-> SrcIdx(src_y[y], params.buffer_width, src_x[x])] :
                 x \in xs, y \in ys},
              buffer_len, surface_len)

\* The writes of the copy routine render_to_buffer selects for the scale mode.
CopyWrites(buffer_len, surface_len, buffer_width, buffer_height, window_width, window_height, scale_mode, layout) ==
  CASE scale_mode = "Stretch" ->
         copy_buffer_stretch_writes(buffer_len, surface_len, buffer_width,
                                    buffer_height, window_width, window_height)
    [] scale_mode = "None" ->
         copy_buffer_centered_writes(buffer_len, surface_len, buffer_width,
                                     buffer_height, window_width, window_height)
    [] OTHER ->
         copy_buffer_scaled_writes(buffer_len, surface_len,
           [buffer_width |-> buffer_width, buffer_height |-> buffer_height,
            window_width |-> window_width, window_height |-> window_height,
            offset_x |-> layout.offset_x, offset_y |-> layout.offset_y,
            scaled_width |-> layout.scaled_width,
            scaled_height |-> layout.scaled_height])

\* Whether write v comes after write w in the loops' order (rows outside).
Later(v, w) == v.dst_y > w.dst_y \/ (v.dst_y = w.dst_y /\ v.dst_x > w.dst_x)

\* The surface buffer after the writes: each written index holds the pixel
\* of the last write to it, every other index keeps what it held.
ApplyWrites(surface_buffer, buffer, writes) ==
  [i \in 1..Len(surface_buffer) |->
     LET here == {w \in writes : w.dst_idx = i - 1}
     IN  IF here = {} THEN surface_buffer[i]
         ELSE PackedPixel(buffer,
                U32ToNat((CHOOSE w \in here : \A v \in here : ~Later(v, w)).src_idx))]

\* A compositor that leaves the frame as it finds it: the faulty variant of
\* FillBackground.
KeepContents(surface_buffer, bg_color) == surface_buffer

\* The background fill of render_to_buffer: every pixel becomes
\* u32::from_le_bytes([B, G, R, 255]) of the background colour.
FillBackground(surface_buffer, bg_color) ==
  [i \in 1..Len(surface_buffer) |->
     from_le_bytes(<<bg_color[3], bg_color[2], bg_color[1], 255>>)]

\* PixelRenderer::render_to_buffer: the frame left in surface_buffer.
render_to_buffer(self, surface_buffer, buffer, window_width, window_height) ==
  LET layout == calculate_scaled_dimensions(self.buffer_width, self.buffer_height,
                    window_width, window_height, self.scale_mode)
      writes == CopyWrites(Len(buffer), Len(surface_buffer), self.buffer_width,
                    self.buffer_height, window_width, window_height,
                    self.scale_mode, layout)
  IN  ApplyWrites(FillBackground(surface_buffer, self.bg_color), buffer, writes)

(***************************************************************************)
(* The state.                                                              *)
(***************************************************************************)
VARIABLES
  overflow_checks,      \* whether the build panics on integer overflow (debug) or wraps (release)
  renderer,             \* the PixelRenderer: buffer_width, buffer_height, scale_mode, bg_color
  window_alive,         \* per window: not yet destroyed
  window_size,          \* per window: inner_size() as <<width, height>>
  window_mutex,         \* per window: the Mutex around it, [holder, poisoned]
  RENDER_STATE_CACHE,   \* [holder, poisoned, map]: the Mutex and the HashMap u64 -> RenderState
  creations,            \* per window: how many surfaces were created for it
  calls,                \* how many calls of the API were made
  screen,               \* per window: the frame last presented on it (<<>> before the first)
  th,                   \* per thread: the call it is in and the call's locals
  sc                    \* the scaling engine applied to drawn inputs (SpecScale)

vars == <<overflow_checks, renderer, window_alive, window_size, window_mutex,
          RENDER_STATE_CACHE, creations, calls, screen, th, sc>>

Threads == {"t1", "t2"}
Windows == {"w1", "w2"}
NoThread == "none"
NoWindow == "none"
NoState == <<>>

\* The largest window width and height, and the most render calls of a run.
MaxWindowWidth == 2
MaxWindowHeight == 1
MaxCalls == 3
\* The largest width and height of the buffers and windows the scaling
\* engine is applied to on its own.
MaxScaleWidth == 3
MaxScaleHeight == 2

WindowSizes == ((1..MaxWindowWidth) \X (1..MaxWindowHeight)) \cup {<<0, 0>>}

\* A u64 is held as <<0, k>> for k and <<1, k>> for 2^64 - k.
\* `window_id as u64` for an i64.
AsU64(window_id) == IF window_id >= 0 THEN <<0, window_id>> ELSE <<1, 0 - window_id>>

\* window_id_to_u64: the DefaultHasher's digest of the WindowId, a fixed
\* u64 per window, distinct for the windows of the model.
window_id_to_u64(w) == IF w = "w1" THEN <<0, 7>> ELSE <<1, 3>>

\* The i64 arguments clear_render_cache is called with: the two that cast
\* to the windows' keys, and one that is no window's key.
WindowIds == {7, 5}

\* PixelRenderer::new and with_options: the configurations drawn.
BufferDims == {<<1, 1>>, <<2, 1>>, <<65536, 16384>>}
BgColors == {<<0, 0, 0, 255>>, <<10, 20, 30, 40>>}

\* The RGBA buffer whose pixel (x, y) is [x + 1, y + 1, blue, 0].
SourceBuffer(buffer_width, buffer_height, blue) ==
  [i \in 1..(buffer_width * buffer_height * 4) |->
     LET p == (i - 1) \div 4
         c == (i - 1) % 4
     IN  CASE c = 0 -> (p % buffer_width) + 1
           [] c = 1 -> (p \div buffer_width) + 1
           [] c = 2 -> blue
           [] OTHER -> 0]

\* The buffers render is called with for a renderer: one of the right
\* length, one a byte short, and the empty one.
Buffers(self) ==
  IF self.buffer_width > 16
  THEN {<<>>, <<1, 1, 7, 0>>}
  ELSE LET good == SourceBuffer(self.buffer_width, self.buffer_height, 7)
       IN  {good, SubSeq(good, 1, Len(good) - 1)}

Idle == [pc |-> "idle", op |-> "none", window |-> NoWindow, window_id |-> 0,
         buffer |-> <<>>, window_width |-> 0, window_height |-> 0,
         made |-> NoState, created |-> 0, surface_buffer |-> <<>>, result |-> <<>>,
         again |-> FALSE]

NoLayout == <<>>
ScIdle == [phase |-> "off", window_width |-> 0, window_height |-> 0,
           layout |-> NoLayout, writes |-> {}, frame |-> <<>>]

Unlocked == [holder |-> NoThread, poisoned |-> FALSE]

\* PixelRenderer::new.
new(buffer_width, buffer_height) ==
  [buffer_width |-> buffer_width, buffer_height |-> buffer_height,
   scale_mode |-> "Fit", bg_color |-> <<0, 0, 0, 255>>]

\* PixelRenderer::with_options, for options that give a mode and a colour.
with_options(buffer_width, buffer_height, scale_mode, background_color) ==
  [buffer_width |-> buffer_width, buffer_height |-> buffer_height,
   scale_mode |-> scale_mode, bg_color |-> background_color]

\* The sizes of a window that is shown (not minimised).
ShownSizes == WindowSizes \ {<<0, 0>>}

\* The state once a renderer has been constructed: open windows, an empty
\* cache, no call under way.
Constructed(renderers) ==
  /\ overflow_checks \in BOOLEAN
  /\ renderer \in renderers
  /\ window_alive = [w \in Windows |-> TRUE]
  /\ window_size = [w \in Windows |-> <<1, 1>>]
  /\ window_mutex = [w \in Windows |-> Unlocked]
  /\ RENDER_STATE_CACHE = [holder |-> NoThread, poisoned |-> FALSE, map |-> <<>>]
  /\ creations = [w \in Windows |-> 0]
  /\ calls = 0
  /\ screen = [w \in Windows |-> <<>>]
  /\ th = [t \in Threads |-> Idle]
  /\ sc = ScIdle

\* The state once a renderer has been constructed and the engine is about
\* to composite its source into a frame of a drawn size.
Drawn(renderers, sizes) ==
  /\ overflow_checks \in BOOLEAN
  /\ renderer \in renderers
  /\ window_alive = [w \in Windows |-> TRUE]
  /\ window_size = [w \in Windows |-> <<1, 1>>]
  /\ window_mutex = [w \in Windows |-> Unlocked]
  /\ RENDER_STATE_CACHE = [holder |-> NoThread, poisoned |-> FALSE, map |-> <<>>]
  /\ creations = [w \in Windows |-> 0]
  /\ calls = 0
  /\ screen = [w \in Windows |-> <<>>]
  /\ th = [t \in Threads |-> Idle]
  /\ sc \in {[ScIdle EXCEPT !.phase = "drawn", !.window_width = size[1],
                             !.window_height = size[2]] : size \in sizes}

\* Two threads share a renderer of one source pixel that fills the window.
Init == Constructed({with_options(1, 1, "Fill", <<0, 0, 0, 255>>)})

\* One thread draws with a renderer made by new.
InitRender == Constructed({new(d[1], d[2]) : d \in BufferDims})

\* Buffers and windows whose scale factor is not exact in an f64: 30 / 22
\* and 15 / 11 are rounded, and a product with the rounded factor falls
\* just below the integer the exact product is.
RoundingDims == {<<30, 1>>, <<11, 1>>}
RoundingSizes == {<<22, 1>>, <<15, 2>>}

\* The scaling engine on every small buffer and window and on those above,
\* in every mode.
InitScale ==
  Drawn({with_options(d[1], d[2], mode, color) :
           d \in ((1..MaxScaleWidth) \X (1..MaxScaleHeight)) \cup RoundingDims,
           mode \in ScaleMode, color \in BgColors},
        ((1..MaxScaleWidth) \X (1..MaxScaleHeight)) \cup RoundingSizes)

(***************************************************************************)
(* Helpers of the actions.                                                 *)
(***************************************************************************)
\* The HashMap as a function on its keys.
\* A removal that empties the map: the faulty variant of Remove.
RemoveEvery(map, key) == <<>>

Insert(map, key, state) == [k \in DOMAIN map \cup {key} |-> IF k = key THEN state ELSE map[k]]
Remove(map, key) == [k \in DOMAIN map \ {key} |-> map[k]]

\* The threads inside render for window w (between the call and its return).
Rendering(w) == {t \in Threads : th[t].op = "render" /\ th[t].window = w /\ th[t].pc # "returned"}
\* The threads closing window w.
Closing(w) == {t \in Threads : th[t].op = "close_window" /\ th[t].window = w}

\* A call returns: the guards it holds are dropped (a panic poisons them),
\* and the thread holds the result until it goes on.
Returned(t, result) ==
  [Idle EXCEPT !.pc = "returned", !.op = th[t].op, !.window = th[t].window,
               !.window_id = th[t].window_id, !.buffer = th[t].buffer, !.result = result]

\* A lock that never waits: the faulty variant of Free below.
NeverWaits(mutex) == TRUE

\* Mutex::lock returns only when no thread holds the mutex.
Free(mutex) == mutex.holder = NoThread

ReleaseWindow(t, panicked) ==
  [window_mutex EXCEPT ![th[t].window] =
     [holder |-> NoThread, poisoned |-> @.poisoned \/ panicked]]

\* A return that keeps the cache locked: the faulty variant of ReleaseCache.
LeakCache(cache, panicked) == cache

\* The cache guard is dropped (a panic poisons the mutex).
ReleaseCache(cache, panicked) ==
  [cache EXCEPT !.holder = NoThread, !.poisoned = @ \/ panicked]

(***************************************************************************)
(* PixelRenderer: the setters.  They borrow the renderer mutably, so none  *)
(* runs while a render call borrows it.                                    *)
(***************************************************************************)
NoRender == \A t \in Threads : th[t].op # "render"

set_scale_mode(mode) ==
  /\ NoRender
  /\ renderer.scale_mode # mode
  /\ renderer' = [renderer EXCEPT !.scale_mode = mode]
  /\ UNCHANGED <<overflow_checks, window_alive, window_size, window_mutex,
                 RENDER_STATE_CACHE, creations, calls, screen, th, sc>>

set_background_color(color) ==
  /\ NoRender
  /\ renderer.bg_color # color
  /\ renderer' = [renderer EXCEPT !.bg_color = color]
  /\ UNCHANGED <<overflow_checks, window_alive, window_size, window_mutex,
                 RENDER_STATE_CACHE, creations, calls, screen, th, sc>>

\* The window system changes a window's size (at any time: the window's
\* mutex guards the handle, not the size the user drags).
WindowResized(w, size) ==
  /\ window_alive[w]
  /\ window_size[w] # size
  /\ window_size' = [window_size EXCEPT ![w] = size]
  /\ UNCHANGED <<overflow_checks, renderer, window_alive, window_mutex,
                 RENDER_STATE_CACHE, creations, calls, screen, th, sc>>

(***************************************************************************)
(* PixelRenderer::render, step by step.                                    *)
(***************************************************************************)
\* `(self.buffer_width * self.buffer_height * 4) as usize`, as a u32.
ExpectedLen(self) ==
  U32WrappingMul(U32WrappingMul(U32(self.buffer_width), U32(self.buffer_height)), U32(4))

\* Whether that product overflows a u32.
ExpectedLenOverflows(self) ==
  \/ U32MulOverflows(U32(self.buffer_width), U32(self.buffer_height))
  \/ U32MulOverflows(U32WrappingMul(U32(self.buffer_width), U32(self.buffer_height)), U32(4))

\* Lines 120-126: the call; a window whose inner is gone is refused.
RenderCall(t, w, buffer) ==
  /\ th[t].pc = "idle"
  /\ calls < MaxCalls
  /\ calls' = calls + 1
  /\ Closing(w) = {}
  /\ th' = [th EXCEPT ![t] =
       IF window_alive[w]
       THEN [Idle EXCEPT !.pc = "lock_window", !.op = "render", !.window = w, !.buffer = buffer]
       ELSE [Idle EXCEPT !.pc = "returned", !.op = "render", !.window = w, !.buffer = buffer,
                         !.result = <<"WindowNotInitialized">>]]
  /\ UNCHANGED <<overflow_checks, renderer, window_alive, window_size, window_mutex,
                 RENDER_STATE_CACHE, creations, screen, sc>>

\* Lines 128-156: lock the window, read its size, validate the buffer.
RenderLockWindow(t) ==
  LET w == th[t].window
      expected_len == ExpectedLen(renderer)
  IN
  /\ th[t].pc = "lock_window"
  /\ Free(window_mutex[w])
  /\ IF window_mutex[w].poisoned
     THEN /\ th' = [th EXCEPT ![t] = Returned(t, <<"FailedToLockWindow">>)]
          /\ UNCHANGED window_mutex
     ELSE IF overflow_checks /\ ExpectedLenOverflows(renderer)
     THEN /\ th' = [th EXCEPT ![t] = Returned(t, <<"Panic">>)]
          /\ window_mutex' = [window_mutex EXCEPT ![w].poisoned = TRUE]
     ELSE IF U32(Len(th[t].buffer)) # expected_len
     THEN /\ th' = [th EXCEPT ![t] =
                 Returned(t, <<"BufferSizeMismatch", Len(th[t].buffer), expected_len>>)]
          /\ UNCHANGED window_mutex
     ELSE /\ th' = [th EXCEPT ![t].pc = "lock_cache",
                              ![t].window_width = window_size[w][1],
                              ![t].window_height = window_size[w][2]]
          /\ window_mutex' = [window_mutex EXCEPT ![w].holder = t]
  /\ UNCHANGED <<overflow_checks, renderer, window_alive, window_size,
                 RENDER_STATE_CACHE, creations, calls, screen, sc>>

\* Lines 158-170: lock the cache and look the window up.
RenderLockCache(t) ==
  LET key == window_id_to_u64(th[t].window) IN
  /\ th[t].pc = "lock_cache"
  /\ Free(RENDER_STATE_CACHE)
  /\ IF RENDER_STATE_CACHE.poisoned
     THEN /\ th' = [th EXCEPT ![t] = Returned(t, <<"FailedToLockCache">>)]
          /\ window_mutex' = ReleaseWindow(t, FALSE)
          /\ UNCHANGED RENDER_STATE_CACHE
     ELSE /\ th' = [th EXCEPT ![t].pc =
                 IF key \notin DOMAIN RENDER_STATE_CACHE.map THEN "create" ELSE "get_state"]
          /\ RENDER_STATE_CACHE' = [RENDER_STATE_CACHE EXCEPT !.holder = t]
          /\ UNCHANGED window_mutex
  /\ UNCHANGED <<overflow_checks, renderer, window_alive, window_size,
                 creations, calls, screen, sc>>

\* The RenderState built for window w: a context and an unsized surface
\* bound to w, and the size render read.
NewRenderState(t) ==
  LET w == th[t].window IN
  [context |-> [window |-> w],
   surface |-> [window |-> w, width |-> 0, height |-> 0, buffer |-> <<>>],
   last_window_width |-> th[t].window_width,
   last_window_height |-> th[t].window_height]

\* An early return with Err from under both locks.
Fail(t, error) ==
  /\ th' = [th EXCEPT ![t] = Returned(t, <<error>>)]
  /\ window_mutex' = ReleaseWindow(t, FALSE)

\* Context::new and Surface::new (lines 178-193 and 225-240): either may fail.
Build(t, outcome, next) ==
  /\ outcome \in {"ok", "ContextFailed", "SurfaceFailed"}
  /\ IF outcome = "ok"
     THEN /\ th' = [th EXCEPT ![t].pc = next, ![t].made = NewRenderState(t),
                              ![t].created = @ + 1]
          /\ creations' = [creations EXCEPT ![th[t].window] = @ + 1]
          /\ UNCHANGED <<window_mutex, RENDER_STATE_CACHE>>
     ELSE /\ Fail(t, outcome)
          /\ RENDER_STATE_CACHE' = ReleaseCache(RENDER_STATE_CACHE, FALSE)
          /\ UNCHANGED creations

\* Lines 172-193: the first creation.
RenderCreate(t, outcome) ==
  /\ th[t].pc = "create"
  /\ Build(t, outcome, "insert")
  /\ UNCHANGED <<overflow_checks, renderer, window_alive, window_size, calls, screen, sc>>

\* cache.borrow_mut().insert(window_id_u64, RenderState {..}).
InsertMade(t, next) ==
  /\ RENDER_STATE_CACHE' = [RENDER_STATE_CACHE EXCEPT
       !.map = Insert(@, window_id_to_u64(th[t].window), th[t].made)]
  /\ th' = [th EXCEPT ![t].pc = next, ![t].made = NoState]

\* Lines 195-203.
RenderInsert(t) ==
  /\ th[t].pc = "insert"
  /\ InsertMade(t, "get_state")
  /\ UNCHANGED <<overflow_checks, renderer, window_alive, window_size, window_mutex,
                 creations, calls, screen, sc>>

\* A check that sees a resize every time: another faulty variant of
\* needs_resize.
AlwaysResized(state, window_width, window_height) == TRUE

\* A check that never sees a resize: the faulty variant of needs_resize.
NeverResized(state, window_width, window_height) == FALSE

\* Whether the state was made for another size than the window has now.
needs_resize(state, window_width, window_height) ==
  state.last_window_width # window_width \/ state.last_window_height # window_height

\* A resize branch that rebuilds without dropping the old state: the
\* faulty variant of EvictForResize.
KeepForResize(map, key) == map

\* Lines 219-222: what the resize branch does to the map before it rebuilds.
EvictForResize(map, key) == Remove(map, key)

\* Lines 206-222: fetch the state; if the window was resized, drop it.
RenderGetState(t) ==
  LET key == window_id_to_u64(th[t].window)
      map == RENDER_STATE_CACHE.map
  IN
  /\ th[t].pc = "get_state"
  /\ IF key \notin DOMAIN map
     THEN /\ Fail(t, "StateNotInCache")
          /\ RENDER_STATE_CACHE' = ReleaseCache(RENDER_STATE_CACHE, FALSE)
     ELSE IF needs_resize(map[key], th[t].window_width, th[t].window_height)
     THEN /\ RENDER_STATE_CACHE' = [RENDER_STATE_CACHE EXCEPT !.map = EvictForResize(map, key)]
          /\ th' = [th EXCEPT ![t].pc = "recreate"]
          /\ UNCHANGED window_mutex
     ELSE /\ th' = [th EXCEPT ![t].pc = "resize_surface"]
          /\ UNCHANGED <<window_mutex, RENDER_STATE_CACHE>>
  /\ UNCHANGED <<overflow_checks, renderer, window_alive, window_size,
                 creations, calls, screen, sc>>

\* Lines 224-240: the recreation.
RenderRecreate(t, outcome) ==
  /\ th[t].pc = "recreate"
  /\ Build(t, outcome, "reinsert")
  /\ UNCHANGED <<overflow_checks, renderer, window_alive, window_size, calls, screen, sc>>

\* Lines 242-252.
RenderReinsert(t) ==
  /\ th[t].pc = "reinsert"
  /\ InsertMade(t, "resize_surface")
  /\ UNCHANGED <<overflow_checks, renderer, window_alive, window_size, window_mutex,
                 creations, calls, screen, sc>>

\* NonZeroU32::new(n).unwrap_or(NonZeroU32::new(1).unwrap()).
NonZero(n) == IF n = 0 THEN 1 ELSE n

\* Surface::resize: the surface takes the size.
SurfaceResize(surface, width, height) ==
  [surface EXCEPT !.width = width, !.height = height]

\* Surface::buffer_mut: width * height packed pixels, either those of the
\* frame the surface presented before (when it has that many) or zeroed.
BufferMut(surface, aged) ==
  IF aged /\ Len(surface.buffer) = surface.width * surface.height
  THEN surface.buffer
  ELSE [i \in 1..(surface.width * surface.height) |-> <<0, 0>>]

\* Lines 255-274: fetch the state again and resize its surface.
RenderResizeSurface(t, outcome) ==
  LET key == window_id_to_u64(th[t].window)
      map == RENDER_STATE_CACHE.map
  IN
  /\ th[t].pc = "resize_surface"
  /\ outcome \in {"ok", "ResizeFailed"}
  /\ IF key \notin DOMAIN map
     THEN /\ Fail(t, "StateNotAvailableAfterResize")
          /\ RENDER_STATE_CACHE' = ReleaseCache(RENDER_STATE_CACHE, FALSE)
     ELSE IF outcome = "ok"
     THEN /\ RENDER_STATE_CACHE' = [RENDER_STATE_CACHE EXCEPT !.map[key].surface =
                 SurfaceResize(@, NonZero(th[t].window_width), NonZero(th[t].window_height))]
          /\ th' = [th EXCEPT ![t].pc = "composite"]
          /\ UNCHANGED window_mutex
     ELSE /\ Fail(t, outcome)
          /\ RENDER_STATE_CACHE' = ReleaseCache(RENDER_STATE_CACHE, FALSE)
  /\ UNCHANGED <<overflow_checks, renderer, window_alive, window_size,
                 creations, calls, screen, sc>>

\* Lines 276-285: acquire the frame and composite into it.  A u32
\* underflow in calculate_scaled_dimensions panics when the build checks
\* overflow: the unwinding drops both guards and poisons both mutexes.
RenderComposite(t, outcome, aged) ==
  LET key == window_id_to_u64(th[t].window)
      surface == RENDER_STATE_CACHE.map[key].surface
      layout == calculate_scaled_dimensions(renderer.buffer_width, renderer.buffer_height,
                    th[t].window_width, th[t].window_height, renderer.scale_mode)
  IN
  /\ th[t].pc = "composite"
  /\ outcome \in {"ok", "BufferMutFailed"}
  /\ IF outcome # "ok"
     THEN /\ Fail(t, outcome)
          /\ RENDER_STATE_CACHE' = ReleaseCache(RENDER_STATE_CACHE, FALSE)
     ELSE IF overflow_checks /\ layout.overflow
     THEN /\ th' = [th EXCEPT ![t] = Returned(t, <<"Panic">>)]
          /\ window_mutex' = ReleaseWindow(t, TRUE)
          /\ RENDER_STATE_CACHE' = ReleaseCache(RENDER_STATE_CACHE, TRUE)
     ELSE /\ th' = [th EXCEPT ![t].pc = "present",
                 ![t].surface_buffer = render_to_buffer(renderer, BufferMut(surface, aged),
                      th[t].buffer, th[t].window_width, th[t].window_height)]
          /\ UNCHANGED <<window_mutex, RENDER_STATE_CACHE>>
  /\ UNCHANGED <<overflow_checks, renderer, window_alive, window_size,
                 creations, calls, screen, sc>>

\* What a render call was given: the buffer, the renderer's configuration
\* and the window size it read.
Inputs(t) ==
  [buffer |-> th[t].buffer, renderer |-> renderer,
   window_width |-> th[t].window_width, window_height |-> th[t].window_height]

\* What the window shows after thread t's frame is presented: the frame
\* and the inputs of the call.
Presented(t) == [frame |-> th[t].surface_buffer, inputs |-> Inputs(t)]

\* Whether the frame the window shows came from the inputs of t's call.
SameInputs(t) ==
  LET before == screen[th[t].window] IN before # <<>> /\ before.inputs = Inputs(t)

\* Lines 287-293: present; the call returns and drops both guards.
RenderPresent(t, outcome) ==
  LET w == th[t].window
      key == window_id_to_u64(w)
  IN
  /\ th[t].pc = "present"
  /\ outcome \in {"ok", "PresentFailed"}
  /\ th' = [th EXCEPT ![t] =
       IF outcome = "ok" THEN [Returned(t, <<"Ok">>) EXCEPT !.again = SameInputs(t)]
       ELSE Returned(t, <<outcome>>)]
  /\ window_mutex' = ReleaseWindow(t, FALSE)
  /\ RENDER_STATE_CACHE' = ReleaseCache(
       [RENDER_STATE_CACHE EXCEPT !.map[key].surface.buffer = th[t].surface_buffer], FALSE)
  /\ screen' = IF outcome = "ok" THEN [screen EXCEPT ![w] = Presented(t)] ELSE screen
  /\ UNCHANGED <<overflow_checks, renderer, window_alive, window_size, creations, calls, sc>>

\* The caller takes the result and goes on.
Return(t) ==
  /\ th[t].pc = "returned"
  /\ th' = [th EXCEPT ![t] = Idle]
  /\ UNCHANGED <<overflow_checks, renderer, window_alive, window_size, window_mutex,
                 RENDER_STATE_CACHE, creations, calls, screen, sc>>

(***************************************************************************)
(* clear_render_cache and clear_all_render_caches.                         *)
(***************************************************************************)
\* The call of clear_render_cache(window_id).
ClearCall(t, window_id) ==
  /\ th[t].pc = "idle"
  /\ calls < MaxCalls
  /\ calls' = calls + 1
  /\ th' = [th EXCEPT ![t] = [Idle EXCEPT !.pc = "clear_lock", !.op = "clear_render_cache",
                                          !.window_id = window_id]]
  /\ UNCHANGED <<overflow_checks, renderer, window_alive, window_size, window_mutex,
                 RENDER_STATE_CACHE, creations, screen, sc>>

\* The call of clear_all_render_caches().
ClearAllCall(t) ==
  /\ th[t].pc = "idle"
  /\ calls < MaxCalls
  /\ calls' = calls + 1
  /\ th' = [th EXCEPT ![t] = [Idle EXCEPT !.pc = "clear_lock",
                                          !.op = "clear_all_render_caches"]]
  /\ UNCHANGED <<overflow_checks, renderer, window_alive, window_size, window_mutex,
                 RENDER_STATE_CACHE, creations, screen, sc>>

\* Where a clear goes when it is over: back to its caller, or, inside
\* close_window, on to the destruction of the window.
Cleared(t) ==
  IF th[t].op = "close_window" THEN [th[t] EXCEPT !.pc = "destroy"]
  ELSE [th[t] EXCEPT !.pc = "returned", !.result = <<"Ok">>]

\* `if let Ok(cache) = RENDER_STATE_CACHE.lock()`: on a poisoned lock the
\* body is skipped and the function returns.
ClearLock(t) ==
  /\ th[t].pc = "clear_lock"
  /\ Free(RENDER_STATE_CACHE)
  /\ IF RENDER_STATE_CACHE.poisoned
     THEN /\ th' = [th EXCEPT ![t] = Cleared(t)]
          /\ UNCHANGED RENDER_STATE_CACHE
     ELSE /\ th' = [th EXCEPT ![t].pc = "clear_remove"]
          /\ RENDER_STATE_CACHE' = [RENDER_STATE_CACHE EXCEPT !.holder = t]
  /\ UNCHANGED <<overflow_checks, renderer, window_alive, window_size, window_mutex,
                 creations, calls, screen, sc>>

\* `cache.borrow_mut().remove(&(window_id as u64))`, or `.clear()`.
ClearRemove(t) ==
  /\ th[t].pc = "clear_remove"
  /\ RENDER_STATE_CACHE' = ReleaseCache(
       [RENDER_STATE_CACHE EXCEPT !.map =
          IF th[t].op = "clear_all_render_caches" THEN <<>>
          ELSE Remove(@, AsU64(th[t].window_id))], FALSE)
  /\ th' = [th EXCEPT ![t] = Cleared(t)]
  /\ UNCHANGED <<overflow_checks, renderer, window_alive, window_size, window_mutex,
                 creations, calls, screen, sc>>

(***************************************************************************)
(* The caller's side of closing a window: clear_render_cache with the      *)
(* window's identity, then the destruction of the window.                  *)
(***************************************************************************)
\* The i64 the caller holds for window w: the one that casts to w's key.
WindowIdOf(w) == IF w = "w1" THEN 7 ELSE 0 - 3

\* The caller starts closing w: no render of w is under way, none starts
\* until the window is gone.
CloseWindow(t, w) ==
  /\ th[t].pc = "idle"
  /\ calls < MaxCalls
  /\ calls' = calls + 1
  /\ window_alive[w]
  /\ Rendering(w) = {}
  /\ Closing(w) = {}
  /\ th' = [th EXCEPT ![t] = [Idle EXCEPT !.pc = "clear_lock", !.op = "close_window",
                                          !.window = w, !.window_id = WindowIdOf(w)]]
  /\ UNCHANGED <<overflow_checks, renderer, window_alive, window_size, window_mutex,
                 RENDER_STATE_CACHE, creations, screen, sc>>

\* The window is destroyed.
DestroyWindow(t) ==
  /\ th[t].pc = "destroy"
  /\ window_alive' = [window_alive EXCEPT ![th[t].window] = FALSE]
  /\ th' = [th EXCEPT ![t] = Idle]
  /\ UNCHANGED <<overflow_checks, renderer, window_size, window_mutex,
                 RENDER_STATE_CACHE, creations, calls, screen, sc>>

(***************************************************************************)
(* Two threads and two windows: render, the evictions and the closing of a *)
(* window, interleaved; the user resizes window w1.                        *)
(***************************************************************************)
Outcomes == {"ok", "ContextFailed", "SurfaceFailed", "ResizeFailed", "BufferMutFailed",
             "PresentFailed"}

\* A step inside a call thread t has made.
Step(t) ==
  \/ RenderLockWindow(t)
  \/ RenderLockCache(t)
  \/ \E outcome \in Outcomes : RenderCreate(t, outcome)
  \/ RenderInsert(t)
  \/ RenderGetState(t)
  \/ \E outcome \in Outcomes : RenderRecreate(t, outcome)
  \/ RenderReinsert(t)
  \/ \E outcome \in Outcomes : RenderResizeSurface(t, outcome)
  \/ \E outcome \in Outcomes, aged \in BOOLEAN : RenderComposite(t, outcome, aged)
  \/ \E outcome \in Outcomes : RenderPresent(t, outcome)
  \/ Return(t)
  \/ ClearLock(t)
  \/ ClearRemove(t)

Next ==
  \/ \E color \in BgColors : set_background_color(color)
  \/ \E size \in ShownSizes : WindowResized("w1", size)
  \/ \E t \in Threads, w \in Windows :
       RenderCall(t, w, SourceBuffer(renderer.buffer_width, renderer.buffer_height, 7))
  \/ \E t \in Threads : Step(t)
  \/ \E t \in Threads, w \in Windows : ClearCall(t, WindowIdOf(w))
  \/ \E t \in Threads : ClearAllCall(t)
  \/ \E t \in Threads, w \in Windows : CloseWindow(t, w)
  \/ \E t \in Threads : DestroyWindow(t)

Spec == Init /\ [][Next]_vars

(***************************************************************************)
(* One thread and one window: the renderer is reconfigured, the window     *)
(* resized and minimised, buffers of the right and of a wrong length are   *)
(* rendered, the cache is evicted.                                          *)
(***************************************************************************)
NextRender ==
  \/ \E mode \in ScaleMode : set_scale_mode(mode)
  \/ \E size \in WindowSizes : WindowResized("w1", size)
  \/ \E buffer \in Buffers(renderer) : RenderCall("t1", "w1", buffer)
  \/ Step("t1")
  \/ \E window_id \in WindowIds : ClearCall("t1", window_id)
  \/ ClearAllCall("t1")

SpecRender == InitRender /\ [][NextRender]_vars

(***************************************************************************)
(* The scaling engine on its own: render_to_buffer applied to a zeroed     *)
(* frame of the drawn window size, the layout first, then the copy.        *)
(***************************************************************************)
\* calculate_scaled_dimensions; the build that checks overflow panics when
\* a subtraction underflows.
ScLayout ==
  LET layout == calculate_scaled_dimensions(renderer.buffer_width, renderer.buffer_height,
                    sc.window_width, sc.window_height, renderer.scale_mode)
  IN
  /\ sc.phase = "drawn"
  /\ sc' = [sc EXCEPT !.layout = layout,
                      !.phase = IF overflow_checks /\ layout.overflow THEN "panicked"
                                ELSE "laid"]
  /\ UNCHANGED <<overflow_checks, renderer, window_alive, window_size, window_mutex,
                 RENDER_STATE_CACHE, creations, calls, screen, th>>

\* The background fill and the copy routine of the mode.
ScCopy ==
  LET buffer == SourceBuffer(renderer.buffer_width, renderer.buffer_height, 7)
      surface_buffer == [i \in 1..(sc.window_width * sc.window_height) |-> <<0, 0>>]
  IN
  /\ sc.phase = "laid"
  /\ sc' = [sc EXCEPT
       !.phase = "done",
       !.writes = CopyWrites(Len(buffer), Len(surface_buffer), renderer.buffer_width,
                     renderer.buffer_height, sc.window_width, sc.window_height,
                     renderer.scale_mode, sc.layout),
       !.frame = render_to_buffer(renderer, surface_buffer, buffer,
                     sc.window_width, sc.window_height)]
  /\ UNCHANGED <<overflow_checks, renderer, window_alive, window_size, window_mutex,
                 RENDER_STATE_CACHE, creations, calls, screen, th>>

NextScale == ScLayout \/ ScCopy

SpecScale == InitScale /\ [][NextScale]_vars

(***************************************************************************)
(* The properties.                                                         *)
(***************************************************************************)
\* The cache entry of the window thread t renders, and whether there is one.
Cached(t) == window_id_to_u64(th[t].window) \in DOMAIN RENDER_STATE_CACHE.map
Entry(t) == RENDER_STATE_CACHE.map[window_id_to_u64(th[t].window)]

\* Thread t holds the result of a render that presented its frame.
RenderedOk(t) == th[t].pc = "returned" /\ th[t].op = "render" /\ th[t].result = <<"Ok">>

\* The entry thread t composites on was made for the size t's call read.
MadeForThisSize(t) ==
  /\ Cached(t)
  /\ Entry(t).last_window_width = th[t].window_width
  /\ Entry(t).last_window_height = th[t].window_height

\* After a successful return the entry holds the size the call read.
HoldsPresentedSize(t) ==
  LET shown == screen[th[t].window] IN
  /\ Cached(t)
  /\ Entry(t).last_window_width = shown.inputs.window_width
  /\ Entry(t).last_window_height = shown.inputs.window_height

\* C1 (as amended): resize reconciliation.  A render call composites and
\* presents only on an entry made for the window size the call read (an
\* entry of another size has been evicted and rebuilt before), on
\* successful return the entry stores that size, and the presented frame
\* has max(1, window_w) * max(1, window_h) packed pixels.
C1_ResizeReconciliation ==
  \A t \in Threads :
    /\ th[t].pc \in {"composite", "present"} => MadeForThisSize(t)
    /\ th[t].pc = "present" =>
         Len(th[t].surface_buffer)
           = NonZero(th[t].window_width) * NonZero(th[t].window_height)
    /\ RenderedOk(t) =>
         /\ HoldsPresentedSize(t)
         /\ Len(screen[th[t].window].frame)
              = NonZero(screen[th[t].window].inputs.window_width)
                  * NonZero(screen[th[t].window].inputs.window_height)

\* C1, reached: a second render call found the entry of the first made for
\* another size, rebuilt it, and is about to present.
C1_Witness ==
  \E t \in Threads :
    /\ th[t].pc = "present"
    /\ calls = 2
    /\ creations[th[t].window] = 2

\* C1 as stated: the same, with a presented frame of exactly
\* window_w * window_h packed pixels.
C1_AsStated ==
  \A t \in Threads :
    /\ th[t].pc \in {"composite", "present"} => MadeForThisSize(t)
    /\ th[t].pc = "present" =>
         Len(th[t].surface_buffer) = th[t].window_width * th[t].window_height
    /\ RenderedOk(t) =>
         /\ HoldsPresentedSize(t)
         /\ Len(screen[th[t].window].frame)
              = screen[th[t].window].inputs.window_width
                  * screen[th[t].window].inputs.window_height

\* C2 as stated: eviction.  In the step in which clear_render_cache(id)
\* returns, the cache holds no entry for id, and in the step in which
\* clear_all_render_caches returns, it holds none at all (so that the next
\* render builds anew), whatever other threads are doing.
C2_AsStated ==
  [][\A t \in Threads :
       (th[t].pc \in {"clear_lock", "clear_remove"} /\ th'[t].pc \in {"returned", "destroy"})
         => IF th[t].op = "clear_all_render_caches"
            THEN DOMAIN RENDER_STATE_CACHE'.map = {}
            ELSE AsU64(th[t].window_id) \notin DOMAIN RENDER_STATE_CACHE'.map]_vars

\* The buffer thread t renders has not buffer_width * buffer_height * 4
\* bytes (a product that overflows a u32 exceeds every length here).
Mismatched(t) ==
  ExpectedLenOverflows(renderer) \/ U32(Len(th[t].buffer)) # ExpectedLen(renderer)

\* C3 as stated: buffer-size validation.  A render call with a buffer of
\* another length than buffer_width * buffer_height * 4 gets no further
\* than the validation: it fails with BufferSizeMismatch, which reports the
\* actual and the expected length (or, before that, because the window is
\* gone or its lock poisoned), and touches neither cache nor surface.
C3_AsStated ==
  \A t \in Threads :
    (th[t].op = "render" /\ Mismatched(t)) =>
      /\ th[t].pc \in {"lock_window", "returned"}
      /\ th[t].pc = "returned" =>
           /\ th[t].result[1] \in {"BufferSizeMismatch", "WindowNotInitialized",
                                   "FailedToLockWindow"}
           /\ th[t].result[1] = "BufferSizeMismatch" =>
                /\ th[t].result[2] = Len(th[t].buffer)
                /\ ~ExpectedLenOverflows(renderer)
                /\ th[t].result[3] = ExpectedLen(renderer)

\* The RenderStates alive for window w: the one in the cache and those a
\* thread has built and not yet inserted.
LiveStates(w) ==
  (IF window_id_to_u64(w) \in DOMAIN RENDER_STATE_CACHE.map THEN 1 ELSE 0)
    + Cardinality({t \in Threads : th[t].made # NoState /\ th[t].made.surface.window = w})

\* C4: at most one RenderState per window identity.  In every state each
\* window has at most one live RenderState (in the cache or just built),
\* and every entry of the cache sits under the key of the window its
\* surface is bound to.
C4_OneStatePerWindow ==
  /\ \A w \in Windows : LiveStates(w) <= 1
  /\ \A key \in DOMAIN RENDER_STATE_CACHE.map :
       key = window_id_to_u64(RENDER_STATE_CACHE.map[key].surface.window)

\* C4, reached: a recreation has built its new state while another window
\* has its entry in the cache.
C4_Witness ==
  \E t \in Threads :
    /\ th[t].pc = "reinsert"
    /\ th[t].made # NoState
    /\ DOMAIN RENDER_STATE_CACHE.map # {}

\* C5 as stated: with callers that call clear_render_cache for a window
\* before they destroy it, every cached surface is bound to a window that
\* is alive.
C5_AsStated ==
  \A key \in DOMAIN RENDER_STATE_CACHE.map :
    window_alive[RENDER_STATE_CACHE.map[key].surface.window]

\* Thread t is inside the section the cache lock guards.
InSection(t) ==
  th[t].pc \in {"create", "insert", "get_state", "recreate", "reinsert", "resize_surface",
                "composite", "present", "clear_remove"}

\* C6: global serialization.  A thread inside the section between the cache
\* lookup and the present (or inside an eviction) holds the cache lock, so
\* no two threads are inside at once, for the same or for different
\* windows; and while a render is between the eviction and the re-insertion
\* of a resize reconciliation no other call has put an entry back.
C6_GlobalSerialization ==
  /\ \A t \in Threads : InSection(t) => RENDER_STATE_CACHE.holder = t
  /\ \A t, u \in Threads : (InSection(t) /\ InSection(u)) => t = u
  /\ \A t \in Threads : th[t].pc \in {"recreate", "reinsert"} => ~Cached(t)

\* C6, reached: one thread is in the middle of a recreation while the
\* other, in a call that is not for the same window, waits for the cache
\* lock.
C6_Witness ==
  \E t, u \in Threads :
    /\ th[t].pc \in {"recreate", "reinsert"}
    /\ th[u].pc \in {"lock_cache", "clear_lock"}
    /\ th[u].window # th[t].window

\* C7 as stated: lock poisoning.  A cache operation that comes to the cache
\* lock when it is poisoned returns the lock failure to its caller.
C7_AsStated ==
  [][\A t \in Threads :
       (/\ th[t].pc \in {"lock_cache", "clear_lock"}
        /\ RENDER_STATE_CACHE.poisoned
        /\ th'[t].pc # th[t].pc)
         => (th'[t].pc = "returned" /\ th'[t].result = <<"FailedToLockCache">>)]_vars

\* The packed pixels of the source the engine composites.
SourceSamples ==
  LET buffer == SourceBuffer(renderer.buffer_width, renderer.buffer_height, 7)
  IN  {PackedPixel(buffer, 4 * p) : p \in 0..(renderer.buffer_width * renderer.buffer_height - 1)}

\* C8 as stated: Fill covers the window.  For positive buffer and window
\* dimensions, compositing in Fill mode completes and leaves a sample of
\* the source in every pixel of the frame: no background remains.
C8_AsStated ==
  renderer.scale_mode = "Fill" =>
    /\ sc.phase # "panicked"
    /\ sc.phase = "done" =>
         \A i \in 1..(sc.window_width * sc.window_height) : sc.frame[i] \in SourceSamples

\* The layout stays inside the window: offset + scaled <= window.
InsideWindow ==
  /\ sc.layout.offset_x <= sc.window_width
  /\ sc.layout.scaled_width <= sc.window_width - sc.layout.offset_x
  /\ sc.layout.offset_y <= sc.window_height
  /\ sc.layout.scaled_height <= sc.window_height - sc.layout.offset_y

\* The source is no larger than the window.
SourceFits ==
  renderer.buffer_width <= sc.window_width /\ renderer.buffer_height <= sc.window_height

\* C9 (as amended): layout bounds.  For positive dimensions the layout is
\* computed without overflow and stays inside the window in Stretch and
\* Fit, and in Integer and None when the source is no larger than the
\* window; in every mode each write lands inside the window.
C9_LayoutBounds ==
  /\ (renderer.scale_mode \in {"Stretch", "Fit"}
        \/ (renderer.scale_mode \in {"Integer", "None"} /\ SourceFits))
       => /\ sc.phase # "panicked"
          /\ sc.phase \in {"laid", "done"} => InsideWindow
  /\ sc.phase = "done" =>
       \A w \in sc.writes : w.dst_x < sc.window_width /\ w.dst_y < sc.window_height

\* C9, reached: a Fit layout letterboxed in the window, and written.
C9_Witness ==
  /\ sc.phase = "done"
  /\ renderer.scale_mode = "Fit"
  /\ sc.layout.scaled_width < sc.window_width
  /\ sc.writes # {}

\* C9 as stated: the layout stays inside the window in every mode but Fill.
C9_AsStated ==
  (renderer.scale_mode # "Fill" /\ sc.phase \in {"laid", "done", "panicked"}) => InsideWindow

\* C10: idempotence of render.  A frame about to be presented on a window
\* whose last frame came from the same buffer, configuration and window
\* size equals that last frame, whatever the surface held and whether or
\* not the cache was evicted in between.
C10_Idempotent ==
  \A t \in Threads :
    (th[t].pc = "present" /\ SameInputs(t))
      => th[t].surface_buffer = screen[th[t].window].frame

\* C10, reached: a render has presented a frame on a window that showed a
\* frame of the same inputs, through a surface created after that frame.
C10_Witness ==
  \E t \in Threads :
    /\ RenderedOk(t)
    /\ th[t].again
    /\ creations[th[t].window] = 2

\* The channels of a packed pixel of the surface, 0xAARRGGBB: <<red, green,
\* blue, alpha>>.
Unpack(pixel) ==
  <<pixel[1] % 256, pixel[2] \div 256, pixel[2] % 256, pixel[1] \div 256>>

\* C11: colour conversion.  In the composited frame of every mode, a pixel
\* no copy wrote carries the red, green and blue of the background colour,
\* a pixel a copy wrote carries those of the source pixel it was read from,
\* and both have alpha 255 whatever alpha the colour or the source had.
C11_ColourConversion ==
  sc.phase = "done" =>
    LET buffer == SourceBuffer(renderer.buffer_width, renderer.buffer_height, 7)
    IN  \A i \in 1..Len(sc.frame) :
          LET here == {w \in sc.writes : w.dst_idx = i - 1}
          IN  IF here = {}
              THEN Unpack(sc.frame[i])
                     = <<renderer.bg_color[1], renderer.bg_color[2], renderer.bg_color[3], 255>>
              ELSE \E w \in here :
                     LET src_idx == U32ToNat(w.src_idx)
                     IN  Unpack(sc.frame[i])
                           = <<buffer[src_idx + 1], buffer[src_idx + 2], buffer[src_idx + 3], 255>>

\* C11, reached: a frame with a copied pixel and a background pixel, for a
\* background colour whose alpha is not 255.
C11_Witness ==
  /\ sc.phase = "done"
  /\ renderer.bg_color = <<10, 20, 30, 40>>
  /\ sc.writes # {}
  /\ \E i \in 1..Len(sc.frame) : \A w \in sc.writes : w.dst_idx # i - 1

(***************************************************************************)
(* The calls under a fair scheduler: a thread that can take its next step  *)
(* eventually takes it (the native surface operations return, a lock that  *)
(* stays free is acquired).                                                *)
(***************************************************************************)
NextLive ==
  \/ \E size \in ShownSizes : WindowResized("w1", size)
  \/ \E t \in Threads, w \in Windows :
       RenderCall(t, w, SourceBuffer(renderer.buffer_width, renderer.buffer_height, 7))
  \/ \E t \in Threads : Step(t)
  \/ \E t \in Threads, w \in Windows : ClearCall(t, WindowIdOf(w))
  \/ \E t \in Threads : ClearAllCall(t)

\* A step of thread t other than the composite.
Advance(t) == th[t].pc # "composite" /\ Step(t)

\* Weak fairness of each thread's steps.  The composite step is enabled
\* exactly while the thread is at "composite" and always leaves it, so weak
\* fairness of that step is the same as []<>(th[t].pc # "composite"); it is
\* written that way because ENABLED of the step would make TLC evaluate the
\* floating-point layout without its cache of LET values.
SpecLive ==
  /\ Init
  /\ [][NextLive]_vars
  /\ \A t \in Threads : WF_vars(Advance(t)) /\ []<>(th[t].pc # "composite")

\* The locks thread t holds.
HeldBy(t) ==
  {w \in Windows : window_mutex[w].holder = t}
    \cup (IF RENDER_STATE_CACHE.holder = t THEN {"cache"} ELSE {})

\* Thread t is inside render, clear_render_cache or clear_all_render_caches.
InCall(t) == th[t].pc \notin {"idle", "returned", "destroy"}

\* The locks are taken in one order and dropped on return: a thread outside
\* a call, or waiting for its first lock, holds none; a clear holds at most
\* the cache lock; a render waiting for the cache lock holds its window's
\* lock only, and one that holds the cache lock holds its window's too.
LockDiscipline ==
  \A t \in Threads :
    /\ (~InCall(t) \/ th[t].pc \in {"lock_window", "clear_lock"}) => HeldBy(t) = {}
    /\ th[t].pc = "clear_remove" => HeldBy(t) = {"cache"}
    /\ th[t].pc = "lock_cache" => HeldBy(t) = {th[t].window}
    /\ (th[t].op = "render" /\ InSection(t)) => HeldBy(t) = {th[t].window, "cache"}

\* C12: no operation blocks indefinitely.  Under fair scheduling every call
\* of render, clear_render_cache and clear_all_render_caches that is under
\* way comes to its return, whatever the other thread does; and the locks
\* are taken in the order window, cache and released on every return.
C12_NoBlocking ==
  /\ []LockDiscipline
  /\ \A t \in Threads : InCall(t) ~> ~InCall(t)

\* C12, reached: a render waits for the lock of a window that another
\* render holds together with the cache lock.
C12_Witness ==
  \E t, u \in Threads :
    /\ th[t].pc = "lock_window"
    /\ HeldBy(u) = {th[t].window, "cache"}

\* The key of the window thread t renders.
KeyOf(t) == window_id_to_u64(th[t].window)

\* A step removes the entry of key from the cache.
Disappears(key) ==
  key \in DOMAIN RENDER_STATE_CACHE.map /\ key \notin DOMAIN RENDER_STATE_CACHE'.map

\* The step is thread t's eviction of key by clear_render_cache(id) with id
\* cast to key, or by clear_all_render_caches.
ExplicitEviction(t, key) ==
  /\ th[t].pc = "clear_remove"
  /\ th[t].op = "clear_all_render_caches" \/ AsU64(th[t].window_id) = key

\* The step is render's removal of the entry it found made for another
\* size than the one it read.
ResizeEviction(t, key) ==
  /\ th[t].op = "render" /\ th[t].pc = "get_state" /\ th'[t].pc = "recreate"
  /\ KeyOf(t) = key
  /\ needs_resize(RENDER_STATE_CACHE.map[key], th[t].window_width, th[t].window_height)

\* The step is the first creation of a RenderState in thread t's render
\* call, made while the cache holds no entry for the window.
Creation(t, w) ==
  /\ th[t].op = "render" /\ th[t].window = w
  /\ th[t].pc \in {"create", "recreate"}
  /\ ~Cached(t)
  /\ th[t].created = 0 /\ th'[t].created = 1
  /\ creations'[w] = creations[w] + 1

\* C13 (as amended): the lifecycle of a RenderState.  One is created only
\* by a render call that found no entry, or found and evicted an entry made
\* for another size than the size it read, and at most once per call.  An
\* entry leaves the cache only by an explicit eviction or by render's
\* eviction for a resize; after the latter the call re-inserts a new entry
\* unless creating the context or the surface fails, in which case it
\* returns that error and the entry stays absent.  The destruction of a
\* window leaves the cache as it is.
C13_Lifecycle ==
  [][/\ \A w \in Windows :
          creations'[w] # creations[w] => \E t \in Threads : Creation(t, w)
     /\ \A t \in Threads :
          /\ th[t].created <= 1
          /\ (th[t].pc = "lock_cache" /\ th'[t].pc = "create") => ~Cached(t)
          /\ (th[t].pc = "get_state" /\ th'[t].pc = "recreate") => ResizeEviction(t, KeyOf(t))
          /\ (th[t].pc = "recreate" /\ th'[t].pc # "recreate") =>
               \/ th'[t].pc = "reinsert"
               \/ /\ th'[t].pc = "returned"
                  /\ th'[t].result \in {<<"ContextFailed">>, <<"SurfaceFailed">>}
          /\ (th[t].pc = "reinsert" /\ th'[t].pc # "reinsert") =>
               KeyOf(t) \in DOMAIN RENDER_STATE_CACHE'.map
     /\ \A w \in Windows :
          Disappears(window_id_to_u64(w)) =>
            \E t \in Threads : \/ ExplicitEviction(t, window_id_to_u64(w))
                               \/ ResizeEviction(t, window_id_to_u64(w))
     /\ window_alive' # window_alive => RENDER_STATE_CACHE' = RENDER_STATE_CACHE]_vars

\* C13, reached: a render that found the entry of a resized window has
\* evicted it and made the window's second RenderState, not yet inserted.
C13_Witness ==
  \E t \in Threads :
    /\ th[t].pc = "reinsert"
    /\ th[t].created = 1
    /\ creations[th[t].window] = 2
    /\ ~Cached(t)

\* C13 as stated: no render call makes an entry disappear for good.  A call
\* that evicted the entry it found does not return without an entry for
\* its window in the cache.
C13_AsStated ==
  [][\A t \in Threads :
       (th[t].pc \in {"recreate", "reinsert"} /\ th'[t].pc = "returned")
         => KeyOf(t) \in DOMAIN RENDER_STATE_CACHE'.map]_vars

\* len is the exact product buffer_width * buffer_height * 4 (a product
\* beyond u32::MAX is the length of no buffer here).
ExactProduct(self, len) ==
  ~ExpectedLenOverflows(self) /\ U32(len) = ExpectedLen(self)

\* Thread t's render has accepted the length of its buffer.
Accepted(t) ==
  th[t].op = "render" /\ (th[t].pc = "lock_cache" \/ InSection(t))

\* C14 as stated: exact expected length.  The length render compares the
\* buffer against is the exact product buffer_width * buffer_height * 4: a
\* buffer it accepts has exactly that many bytes, and the expected length a
\* BufferSizeMismatch reports is that product, not a wrapped one.
C14_AsStated ==
  \A t \in Threads :
    /\ Accepted(t) => ExactProduct(renderer, Len(th[t].buffer))
    /\ (th[t].pc = "returned" /\ th[t].op = "render" /\ th[t].result # <<>>
          /\ th[t].result[1] = "BufferSizeMismatch")
         => ~ExpectedLenOverflows(renderer)

\* `n / 2` with the division truncating toward zero, for a signed n.
TruncHalf(n) == IF n >= 0 THEN n \div 2 ELSE 0 - ((0 - n) \div 2)

\* The colour of the source pixel (x, y), as the frame shows it.
SourceColour(x, y) ==
  LET buffer == SourceBuffer(renderer.buffer_width, renderer.buffer_height, 7)
      i == 4 * (y * renderer.buffer_width + x)
  IN  <<buffer[i + 1], buffer[i + 2], buffer[i + 3], 255>>

\* The background colour, as the frame shows it.
BackgroundColour ==
  <<renderer.bg_color[1], renderer.bg_color[2], renderer.bg_color[3], 255>>

\* The colour of the frame's pixel (x, y).
Shows(x, y) == Unpack(sc.frame[y * sc.window_width + x + 1])

\* Whether i lies in the span of length scaled that starts at offset.
Within(i, offset, scaled) == offset <= i /\ i < offset + scaled

\* C15 as stated: Integer mode.  For positive dimensions, a window smaller
\* than the buffer included, the layout is scale = max(1, floor(min(window_w
\* / buffer_w, window_h / buffer_h))), scaled = buffer_dim * scale, offset =
\* (window_dim - scaled_dim) / 2; the frame shows each source pixel as a
\* scale x scale block inside that rectangle and the background outside.
C15_AsStated ==
  renderer.scale_mode = "Integer" =>
    LET scale == Max(1, Min(sc.window_width \div renderer.buffer_width,
                            sc.window_height \div renderer.buffer_height))
        scaled_width == renderer.buffer_width * scale
        scaled_height == renderer.buffer_height * scale
        offset_x == TruncHalf(sc.window_width - scaled_width)
        offset_y == TruncHalf(sc.window_height - scaled_height)
    IN  /\ sc.phase # "panicked"
        /\ sc.phase \in {"laid", "done"} =>
             /\ sc.layout.scaled_width = scaled_width
             /\ sc.layout.scaled_height = scaled_height
             /\ sc.layout.offset_x = offset_x
             /\ sc.layout.offset_y = offset_y
        /\ sc.phase = "done" =>
             \A x \in 0..(sc.window_width - 1), y \in 0..(sc.window_height - 1) :
               Shows(x, y) =
                 IF Within(x, offset_x, scaled_width) /\ Within(y, offset_y, scaled_height)
                 THEN SourceColour((x - offset_x) \div scale, (y - offset_y) \div scale)
                 ELSE BackgroundColour

\* The scaled dimensions of Fit in exact arithmetic: buffer_dim * scale
\* truncated, for scale = min(window_w / buffer_w, window_h / buffer_h).
ExactFit ==
  IF sc.window_width * renderer.buffer_height <= sc.window_height * renderer.buffer_width
  THEN <<sc.window_width,
         (renderer.buffer_height * sc.window_width) \div renderer.buffer_width>>
  ELSE <<(renderer.buffer_width * sc.window_height) \div renderer.buffer_height,
         sc.window_height>>

\* The nearest source coordinate of the i-th pixel of a span of scaled
\* pixels, in exact arithmetic: floor(i * buffer_dim / scaled), clamped.
ExactNearest(i, buffer_dim, scaled) ==
  Min((i * buffer_dim) \div scaled, buffer_dim - 1)

\* The frame shows the source inside the rectangle of the layout, sampled
\* at min(trunc(i as f64 * (buffer_dim as f64 / scaled as f64)), buffer_dim
\* - 1), which is the exact nearest coordinate or the one before it, and
\* the background outside.
ShowsScaled(layout) ==
  \A x \in 0..(sc.window_width - 1), y \in 0..(sc.window_height - 1) :
    IF Within(x, layout.offset_x, layout.scaled_width)
         /\ Within(y, layout.offset_y, layout.scaled_height)
    THEN LET i == x - layout.offset_x
             j == y - layout.offset_y
             src_x == SourceCoordinate(i, FDiv(renderer.buffer_width, layout.scaled_width),
                                       renderer.buffer_width)
             src_y == SourceCoordinate(j, FDiv(renderer.buffer_height, layout.scaled_height),
                                       renderer.buffer_height)
             exact_x == ExactNearest(i, renderer.buffer_width, layout.scaled_width)
             exact_y == ExactNearest(j, renderer.buffer_height, layout.scaled_height)
         IN  /\ Shows(x, y) = SourceColour(src_x, src_y)
             /\ src_x \in {exact_x, exact_x - 1}
             /\ src_y \in {exact_y, exact_y - 1}
    ELSE Shows(x, y) = BackgroundColour

\* C16: Fit mode.  For positive dimensions the layout is computed without
\* overflow; scaled_dim is buffer_dim * scale truncated, with scale =
\* min(window_w / buffer_w, window_h / buffer_h), in f64 as the engine
\* computes, which is the exact truncated product or one less; offset =
\* (window_dim - scaled_dim) / 2; 800 x 600 in 1000 x 600 gives 800 x 600
\* at (100, 0); the frame shows the nearest source sample inside the
\* rectangle and the background outside.
C16_FitMode ==
  renderer.scale_mode = "Fit" =>
    LET scale == FMin(FDiv(sc.window_width, renderer.buffer_width),
                      FDiv(sc.window_height, renderer.buffer_height))
    IN  /\ sc.phase # "panicked"
        /\ sc.phase \in {"laid", "done"} =>
             /\ sc.layout.scaled_width = FToU32(FMul(renderer.buffer_width, scale))
             /\ sc.layout.scaled_height = FToU32(FMul(renderer.buffer_height, scale))
             /\ sc.layout.scaled_width \in {ExactFit[1], ExactFit[1] - 1}
             /\ sc.layout.scaled_height \in {ExactFit[2], ExactFit[2] - 1}
             /\ sc.layout.offset_x = (sc.window_width - sc.layout.scaled_width) \div 2
             /\ sc.layout.offset_y = (sc.window_height - sc.layout.scaled_height) \div 2
        /\ sc.phase = "done" => ShowsScaled(sc.layout)
        /\ LET example == calculate_scaled_dimensions(800, 600, 1000, 600, "Fit")
           IN  <<example.scaled_width, example.scaled_height,
                 example.offset_x, example.offset_y>> = <<800, 600, 100, 0>>

\* C16, reached: an 11 x 1 buffer fitted in a 15 x 2 window, where 11 *
\* (15 / 11) falls below 15 in f64: 14 columns are drawn, and a background
\* column and row remain.
C16_Witness ==
  /\ sc.phase = "done"
  /\ renderer.scale_mode = "Fit"
  /\ renderer.buffer_width = 11 /\ sc.window_width = 15
  /\ sc.layout.scaled_width = 14
  /\ Cardinality(sc.writes) = 14

\* C17: None mode.  For positive dimensions the layout is computed without
\* overflow, offset_dim = max(0, (window_dim - buffer_dim) / 2) and scaled =
\* the buffer's dimensions; frame pixel (offset_x + x, offset_y + y) shows
\* source pixel (x, y) for x < min(buffer_w, window_w), y < min(buffer_h,
\* window_h), and every other frame pixel shows the background.
C17_NoneMode ==
  renderer.scale_mode = "None" =>
    LET offset_x == Max(0, TruncHalf(sc.window_width - renderer.buffer_width))
        offset_y == Max(0, TruncHalf(sc.window_height - renderer.buffer_height))
        copied_w == Min(renderer.buffer_width, sc.window_width)
        copied_h == Min(renderer.buffer_height, sc.window_height)
    IN  /\ sc.phase # "panicked"
        /\ sc.phase \in {"laid", "done"} =>
             /\ ~sc.layout.overflow
             /\ sc.layout.offset_x = offset_x
             /\ sc.layout.offset_y = offset_y
             /\ sc.layout.scaled_width = renderer.buffer_width
             /\ sc.layout.scaled_height = renderer.buffer_height
        /\ sc.phase = "done" =>
             /\ \A x \in 0..(copied_w - 1), y \in 0..(copied_h - 1) :
                  /\ offset_x + x < sc.window_width
                  /\ offset_y + y < sc.window_height
                  /\ Shows(offset_x + x, offset_y + y) = SourceColour(x, y)
             /\ \A x \in 0..(sc.window_width - 1), y \in 0..(sc.window_height - 1) :
                  ~(Within(x, offset_x, copied_w) /\ Within(y, offset_y, copied_h))
                    => Shows(x, y) = BackgroundColour

\* C17, reached: a buffer higher than the window and narrower than it by
\* two columns or more, copied without scaling: its top part is shown,
\* centred horizontally between background columns.
C17_Witness ==
  /\ sc.phase = "done"
  /\ renderer.scale_mode = "None"
  /\ renderer.buffer_height > sc.window_height
  /\ renderer.buffer_width + 2 <= sc.window_width
  /\ sc.layout.offset_y = 0
  /\ sc.layout.offset_x > 0
  /\ Cardinality(sc.writes) = renderer.buffer_width * sc.window_height

\* The source pixel that Stretch samples for the frame's pixel (x, y):
\* min(trunc(x as f64 * (buffer_w as f64 / window_w as f64)), buffer_w - 1),
\* and the same in y.
StretchSample(x, y) ==
  <<SourceCoordinate(x, FDiv(renderer.buffer_width, sc.window_width), renderer.buffer_width),
    SourceCoordinate(y, FDiv(renderer.buffer_height, sc.window_height), renderer.buffer_height)>>

\* C18 (as amended): Stretch mode.  For positive dimensions every frame
\* pixel (x, y) is overwritten with the source pixel at (min(trunc(x *
\* (buffer_w / window_w)), buffer_w - 1), min(trunc(y * (buffer_h /
\* window_h)), buffer_h - 1)), the ratio and the product in f64; each
\* coordinate is floor(dst * buffer_dim / window_dim) or one less; the
\* whole window is written.
C18_Stretch ==
  renderer.scale_mode = "Stretch" =>
    /\ sc.phase # "panicked"
    /\ sc.phase \in {"laid", "done"} =>
         /\ sc.layout.offset_x = 0 /\ sc.layout.offset_y = 0
         /\ sc.layout.scaled_width = sc.window_width
         /\ sc.layout.scaled_height = sc.window_height
    /\ sc.phase = "done" =>
         /\ Cardinality(sc.writes) = sc.window_width * sc.window_height
         /\ \A x \in 0..(sc.window_width - 1), y \in 0..(sc.window_height - 1) :
              LET src == StretchSample(x, y)
                  exact_x == ExactNearest(x, renderer.buffer_width, sc.window_width)
                  exact_y == ExactNearest(y, renderer.buffer_height, sc.window_height)
              IN  /\ Shows(x, y) = SourceColour(src[1], src[2])
                  /\ src[1] \in {exact_x, exact_x - 1}
                  /\ src[2] \in {exact_y, exact_y - 1}

\* C18, reached: a buffer 30 wide stretched into a window 22 wide, where
\* 11 * (30 / 22) falls below 15 in f64: the frame's column 11 shows the
\* source's column 14.
C18_Witness ==
  /\ sc.phase = "done"
  /\ renderer.scale_mode = "Stretch"
  /\ renderer.buffer_width = 30 /\ sc.window_width = 22
  /\ StretchSample(11, 0) = <<14, 0>>
  /\ Shows(11, 0) = SourceColour(14, 0)

\* C18 as stated: Stretch mode, every frame pixel (x, y) showing the source
\* pixel at (min(floor(x * buffer_w / window_w), buffer_w - 1), min(floor(y
\* * buffer_h / window_h), buffer_h - 1)).
C18_AsStated ==
  (renderer.scale_mode = "Stretch" /\ sc.phase = "done") =>
    \A x \in 0..(sc.window_width - 1), y \in 0..(sc.window_height - 1) :
      Shows(x, y) = SourceColour(ExactNearest(x, renderer.buffer_width, sc.window_width),
                                 ExactNearest(y, renderer.buffer_height, sc.window_height))

\* The step is the return of thread t's render with the error of a failed
\* Context::new or Surface::new, on first creation or on recreation.
CreationFails(t) ==
  /\ th[t].op = "render"
  /\ th[t].pc \in {"create", "recreate"}
  /\ th'[t].pc = "returned"
  /\ th'[t].result \in {<<"ContextFailed">>, <<"SurfaceFailed">>}

\* C19: failed creation leaves no entry.  When render returns the error of
\* a failed context or surface creation, on first creation or on the
\* recreation after a resize, the cache holds no entry for the window at
\* the return and the cache lock is free; no other return of render
\* carries these errors; and a render that locks the cache while it holds
\* no entry for its window starts by creating one.
C19_FailedCreation ==
  [][\A t \in Threads :
       /\ CreationFails(t) =>
            /\ KeyOf(t) \notin DOMAIN RENDER_STATE_CACHE'.map
            /\ RENDER_STATE_CACHE'.holder = NoThread
            /\ ~RENDER_STATE_CACHE'.poisoned
            /\ creations' = creations
       /\ (/\ th[t].pc # "returned" /\ th'[t].pc = "returned"
           /\ th'[t].result \in {<<"ContextFailed">>, <<"SurfaceFailed">>})
            => CreationFails(t)
       /\ (th[t].pc = "lock_cache" /\ th'[t].pc \notin {"lock_cache", "returned"}) =>
            (th'[t].pc = "create" <=> ~Cached(t))]_vars

\* C19, reached: the first two calls of a run rendered the same window; one
\* returned Ok, so it left an entry, and the other, after a resize, evicted
\* that entry and returned SurfaceFailed: the cache holds no entry.
C19_Witness ==
  \E t, u \in Threads :
    /\ calls = 2
    /\ th[t].pc = "returned" /\ th[t].op = "render"
    /\ th[t].result = <<"SurfaceFailed">>
    /\ RenderedOk(u) /\ th[u].window = th[t].window
    /\ creations[th[t].window] = 1
    /\ ~Cached(t)

\* The writes the copy routine would perform on buffers long enough for
\* its guard `src_idx + 4 <= buffer.len() && dst_idx < surface_buffer.len()`
\* to pass every time.
Attempted ==
  CopyWrites(65536, 65536, renderer.buffer_width, renderer.buffer_height,
             sc.window_width, sc.window_height, renderer.scale_mode, sc.layout)

\* Write w reads a whole pixel of the source and writes the frame's pixel
\* of column dst_x < window_width and row dst_y < window_height.
InBounds(w) ==
  /\ w.dst_x < sc.window_width
  /\ w.dst_y < sc.window_height
  /\ w.dst_idx = w.dst_y * sc.window_width + w.dst_x
  /\ w.dst_idx < sc.window_width * sc.window_height
  /\ U32ToNat(w.src_idx) % 4 = 0
  /\ U32ToNat(w.src_idx) + 4 <= renderer.buffer_width * renderer.buffer_height * 4

\* C20: in-bounds writes in every mode.  Whatever the mode and the sizes of
\* buffer and window, every write of the compositing targets a frame index
\* below window_w * window_h at a column below window_w and a row below
\* window_h, and reads a pixel inside the buffer; the routine's guard
\* rejects no write of a frame; and where an offset has wrapped modulo
\* 2^32 nothing is written.
C20_InBounds ==
  sc.phase = "done" =>
    /\ \A w \in sc.writes : InBounds(w)
    /\ Attempted = sc.writes
    /\ sc.layout.overflow => sc.writes = {}

\* C20, reached: a buffer larger than the window in both dimensions,
\* copied unscaled by the build that wraps: one write for each pixel of the
\* window, the last one from inside the buffer's first rows.
C20_Witness ==
  /\ sc.phase = "done"
  /\ ~overflow_checks
  /\ renderer.scale_mode = "None"
  /\ renderer.buffer_width > sc.window_width
  /\ renderer.buffer_height > sc.window_height
  /\ Cardinality(sc.writes) = sc.window_width * sc.window_height
  /\ \E w \in sc.writes : w.dst_idx = sc.window_width * sc.window_height - 1

\* The entry the map holds for key, NoState when it holds none.
EntryOf(map, key) == IF key \in DOMAIN map THEN map[key] ELSE NoState

\* The keys whose entry a step adds, removes or replaces.
Touched ==
  {k \in DOMAIN RENDER_STATE_CACHE.map \cup DOMAIN RENDER_STATE_CACHE'.map :
     EntryOf(RENDER_STATE_CACHE.map, k) # EntryOf(RENDER_STATE_CACHE'.map, k)}

\* The step is one of thread t's call op (its call, a step inside it, or
\* its return).
StepOf(t, op) ==
  th'[t] # th[t] /\ (th[t].op = op \/ th'[t].op = op)

\* C21: per-window frame.  A step of a render call touches no entry but
\* that of the call's own window, whether the call succeeds or fails; a
\* step of clear_render_cache(id) touches no entry but that of id cast to
\* u64, and only to remove it; when the map holds no entry for id the call
\* leaves the map as it is; and the call returns without an error.
C21_PerWindowFrame ==
  [][\A t \in Threads :
       /\ StepOf(t, "render") => Touched \subseteq {KeyOf(t)}
       /\ StepOf(t, "clear_render_cache") =>
            /\ Touched \subseteq {AsU64(th'[t].window_id)}
            /\ DOMAIN RENDER_STATE_CACHE'.map \subseteq DOMAIN RENDER_STATE_CACHE.map
            /\ AsU64(th'[t].window_id) \notin DOMAIN RENDER_STATE_CACHE.map
                 => RENDER_STATE_CACHE'.map = RENDER_STATE_CACHE.map
            /\ th'[t].pc = "returned" => th'[t].result = <<"Ok">>
            /\ th[t].pc = "clear_remove" =>
                 AsU64(th[t].window_id) \notin DOMAIN RENDER_STATE_CACHE'.map]_vars

\* C21, reached: both windows were rendered and clear_render_cache was then
\* called with the identity of w1: the entry of w1 is gone and that of w2
\* is the one its render left.
C21_Witness ==
  \E t \in Threads :
    /\ calls = 3
    /\ th[t].op = "clear_render_cache" /\ th[t].pc = "returned"
    /\ AsU64(th[t].window_id) = window_id_to_u64("w1")
    /\ \A u \in Threads \ {t} : th[u].pc \in {"idle", "returned"}
    /\ creations = [w \in Windows |-> 1]
    /\ DOMAIN RENDER_STATE_CACHE.map = {window_id_to_u64("w2")}

====
